---- MODULE Spec2Model ----
(***************************************************************************)
(* Job-driven daily stock price ingestion.                                 *)
(*                                                                         *)
(* Three runs share one job table and one price table:                     *)
(*   "single"   alpha_vantage_daily_stock_price_update.py                  *)
(*   "multi"    alpha_vantage_stocks_data_update_for_several_days.py       *)
(*   "fallback" daily_stock_price_update_for_missing_data_in_alphavantage_ *)
(*              using_yfinance.py                                          *)
(* A run is a sequential program; pc is its position.  The database is the *)
(* committed tables plus the open transaction's view of them.              *)
(* A fourth script, trial_process/take_data_from_ticker_file_save_in_csv_   *)
(* and_log_file.py, reads a ticker file and writes a CSV and a log; fpc is *)
(* its position.                                                           *)
(***************************************************************************)
EXTENDS Integers, Sequences, FiniteSets, TLC

\* ---------------------------------------------------------------- bounds
NJobs == 3
\* The request cap of the limiter.  The scripts set 75; the model keeps the
\* comparison and the arithmetic and scales the number down.
MAX_REQ_PER_MIN == 1
\* The batch size of the file-driven script (200 there) and the longest
\* ticker file.
BATCH_SIZE == 2
MaxTickers == 3

\* ------------------------------------------------------ program constants
COOLDOWN_SECS == 60
\* WHERE trade_date = '2025-06-23' of the multi-day script, as a day number.
FIXED_TRADE_DATE == 1
\* The file-driven script: attempts per batch, the factor of time.sleep(2 *
\* attempt), and its trade date as a day number.
MAX_RETRIES == 3
BACKOFF_BASE == 2
TRADE_DATE == 1

JobIds == 1..NJobs
Symbols == {"AAPL", "MSFT", "aapl"}
Dates == {1, 2}
\* Seconds by which the clock may advance between two provider calls.
TickSteps == {30}

\* ------------------------------------------------------------- strings
\* A message is a sequence of string pieces (an f-string's parts); NULL is <<>>.
NULL == << >>
NO_DATA_MSG == << "No data for trade_date (market closed?)" >>
READ_TIMEOUT == << "HTTPSConnectionPool(host='www.alphavantage.co', port=443): Read timed out. (read timeout=30)" >>
API_ERROR == "API error: "
INSERT_ERROR == "Insert error: "
YF_ERROR == "yfinance error: "
YF_EMPTY_MSG == << "No data returned from yfinance" >>

\* str.upper()
Upper(s) == IF s = "aapl" THEN "AAPL" ELSE s

\* Code point order of the symbols (Python's str order, used by groupby).
SymRank(s) == CASE s = "AAPL" -> 1 [] s = "MSFT" -> 2 [] s = "aapl" -> 3

\* ------------------------------------------------------- raw provider data
\* One raw field of a provider entry: a numeric text (val in 1e-5 units for
\* prices, a whole number for the volume), a key that is absent, a null
\* (JSON null, NaN in a data frame), or a text that is no number.
Num(n) == [kind |-> "num", val |-> n]
AbsentF == [kind |-> "absent", val |-> 0]
NullF == [kind |-> "null", val |-> 0]
TextF == [kind |-> "text", val |-> 0]

RawEntries ==
  { [close |-> Num(15012336), volume |-> Num(1000000), dividend |-> Num(0), split |-> Num(200000)],
    [close |-> Num(99996),    volume |-> Num(200),     dividend |-> AbsentF, split |-> AbsentF],
    [close |-> AbsentF,       volume |-> Num(200),     dividend |-> AbsentF, split |-> AbsentF],
    [close |-> TextF,         volume |-> Num(200),     dividend |-> Num(0),  split |-> Num(100000)],
    [close |-> Num(99996),    volume |-> Num(200),     dividend |-> NullF,   split |-> NullF] }

\* All series over a set of dates: a date may be missing from the series.
SeriesOver(ds) == UNION { [S -> RawEntries] : S \in SUBSET ds }

VARIABLES
  job_rows,        \* pipelines.stocks_daily_jobs, committed
  daily_prices,    \* stocks.daily_prices, committed (a set of rows)
  tx_job_rows,     \* the open transaction's view of the job table
  tx_daily_prices, \* the open transaction's view of the price table
  variant,         \* which script is running
  trade_date,      \* the run's --date (single) or the fixed date (multi)
  jobs,            \* the loaded batch, in processing order
  i,               \* index in jobs of the job in hand
  k,               \* index in jobs of the fetch-failure marking loop
  series_cache,    \* single: upper symbol -> series
  series,          \* the series in hand
  row,             \* the row built for the job in hand
  err,             \* the message of the exception in hand
  req_counter,     \* requests counted in the rate window
  elapsed,         \* now - minute_start, capped at 60
  recent,          \* ages (seconds) of the provider calls of the last 60 s
  pc,              \* position in the script
  exit_code,       \* the process's exit status once it ended
  done_msg,        \* "All pending jobs handled." was printed
  interrupted,     \* a KeyboardInterrupt ended this run
  fatal,           \* an uncaught or connection error ended this run
  fetch_calls,     \* this run's provider calls: sequence of [symbol, ok]
  upserts,         \* this run's executed INSERTs: sequence of [job_id, row]
  \* --- the file-driven script (trial_process)
  symbols,         \* the ticker list: upper case, no duplicates
  batch_start,     \* index in symbols of the first symbol of the batch
  attempt,         \* the retry loop's attempt number
  data,            \* the frame of the batch's download: symbol -> frame
  sym_idx,         \* index in symbols of the symbol in hand
  records,         \* the records collected for the CSV
  log,             \* the result log: sequence of [sym, status, msg]
  downloads,       \* the batch's download calls so far: sequence of ok flags
  sleeps,          \* the batch's time.sleep calls so far, in seconds
  csv,             \* the rows written to the prices CSV
  fpc              \* position in the file-driven script

vars == << job_rows, daily_prices, tx_job_rows, tx_daily_prices, variant,
           trade_date, jobs, i, k, series_cache, series, row, err,
           req_counter, elapsed, recent, pc, exit_code, done_msg,
           interrupted, fatal, fetch_calls, upserts,
           symbols, batch_start, attempt, data, sym_idx, records, log,
           downloads, sleeps, csv, fpc >>

runVars == << job_rows, daily_prices, tx_job_rows, tx_daily_prices, variant,
              trade_date, jobs, i, k, series_cache, series, row, err,
              req_counter, elapsed, recent, pc, exit_code, done_msg,
              interrupted, fatal, fetch_calls, upserts >>
fileVars == << symbols, batch_start, attempt, data, sym_idx, records, log,
               downloads, sleeps, csv, fpc >>
dbVars == << job_rows, daily_prices, tx_job_rows, tx_daily_prices >>
rateVars == << req_counter, elapsed, recent >>
endVars == << exit_code, done_msg, interrupted, fatal >>

NoRow == [symbol |-> "", trade_date |-> 0]
NoSeries == << >>

\* ------------------------------------------------------------ job table
\* Faulty variant: the query has no WHERE clause.
SelectedAll(v, d, table) == JobIds

\* Faulty variant: the recovery query takes every FAILED job.
SelectedAnyFailed(v, d, table) ==
  { j \in JobIds : table[j].status = (IF v = "fallback" THEN "FAILED" ELSE "PENDING") }

\* The WHERE clause of each script's job query.
Selected(v, d, table) ==
  { j \in JobIds :
      CASE v = "single" ->
             table[j].trade_date = d /\ table[j].status = "PENDING"
        [] v = "multi" ->
             table[j].trade_date = FIXED_TRADE_DATE /\ table[j].status = "PENDING"
        [] v = "fallback" ->
             /\ table[j].status = "FAILED"
             /\ \/ table[j].error_message = NO_DATA_MSG
                \/ table[j].error_message = << API_ERROR >> \o READ_TIMEOUT }

\* Faulty variant: the query has no ORDER BY, the rows come in any order.
OrderedAny(v, table, a, b) == TRUE

\* ORDER BY symbol (single) and ORDER BY symbol, trade_date (multi, fallback):
\* whether row a may come before row b.  Rows with equal keys come in any order.
OrderedBefore(v, table, a, b) ==
  \/ SymRank(table[a].symbol) < SymRank(table[b].symbol)
  \/ /\ table[a].symbol = table[b].symbol
     /\ v = "single" \/ table[a].trade_date <= table[b].trade_date

\* The results the query may return: every ordering of the selected rows that
\* the ORDER BY allows.  groupby("symbol") then walks the symbols in code point
\* order and keeps the rows of one symbol in query order, which is this order.
QueryResults(v, d, table) ==
  LET sel == Selected(v, d, table)
      n   == Cardinality(sel)
  IN  { [m \in 1..n |-> [job_id |-> s[m], symbol |-> table[s[m]].symbol,
                         trade_date |-> table[s[m]].trade_date]] :
          s \in { t \in [1..n -> sel] :
                    /\ \A a, b \in 1..n : a # b => t[a] # t[b]
                    /\ \A a, b \in 1..n : a < b => OrderedBefore(v, table, t[a], t[b]) } }

\* Faulty variant: the UPDATE's WHERE matches no row.
mark_job_no_match(table, job_id, status, e) == table

\* mark_job: the UPDATE of one job row.
mark_job(table, job_id, status, e) ==
  [table EXCEPT ![job_id].status = status, ![job_id].error_message = e]

\* Faulty variant: ON CONFLICT ... DO UPDATE: the new row replaces the stored one.
InsertOrReplace(prices, r) ==
  { p \in prices : ~(p.symbol = r.symbol /\ p.trade_date = r.trade_date) } \cup {r}

\* INSERT ... ON CONFLICT (symbol, trade_date) DO NOTHING
InsertPrice(prices, r) ==
  IF \E p \in prices : p.symbol = r.symbol /\ p.trade_date = r.trade_date
  THEN prices
  ELSE prices \cup {r}

\* --------------------------------------------------------- normalisation
\* Faulty variant: the fifth decimal is cut off instead of rounded.
Round4Truncates(x) == x \div 10

\* round(x, 4) of a value given in 1e-5 units, in 1e-4 units (half to even).
Round4(x) ==
  LET q == x \div 10
      r == x % 10
  IN  IF r < 5 THEN q
      ELSE IF r > 5 THEN q + 1
      ELSE IF q % 2 = 0 THEN q ELSE q + 1

Value(v) == [ok |-> TRUE, val |-> v, kind |-> "none", exc |-> NULL]
Raise(kind, msg) == [ok |-> FALSE, val |-> 0, kind |-> kind, exc |-> msg]

\* round(float(rec[key]), 4)
RoundFloatOf(f, key) ==
  CASE f.kind = "num"    -> Value(Round4(f.val))
    [] f.kind = "absent" -> Raise("KeyError", << "'", key, "'" >>)
    [] f.kind = "null"   -> Raise("TypeError", << "float() argument must be a string or a real number, not 'NoneType'" >>)
    [] f.kind = "text"   -> Raise("ValueError", << "could not convert string to float: ", key >>)

\* int(rec[key])
IntOf(f, key) ==
  CASE f.kind = "num"    -> Value(f.val)
    [] f.kind = "absent" -> Raise("KeyError", << "'", key, "'" >>)
    [] f.kind = "null"   -> Raise("TypeError", << "int() argument must be a string, a bytes-like object or a real number, not 'NoneType'" >>)
    [] f.kind = "text"   -> Raise("ValueError", << "invalid literal for int() with base 10: ", key >>)

\* single: round(float(rec.get(key, default)), 4), default in 1e-4 units
RoundFloatGet(f, key, default) ==
  IF f.kind = "absent" THEN Value(default) ELSE RoundFloatOf(f, key)

\* multi: round(float(rec.get(key, default) or default), 4)
RoundFloatGetOr(f, key, default) ==
  IF f.kind \in {"absent", "null"} THEN Value(default) ELSE RoundFloatOf(f, key)

\* fallback: round(row_data[col].iloc[0], 4); a NaN stays a NaN
RoundCell(f, col) ==
  CASE f.kind = "num"    -> Value(Round4(f.val))
    [] f.kind = "absent" -> Raise("KeyError", << "'", col, "'" >>)
    [] f.kind = "null"   -> Value(-1)
    [] f.kind = "text"   -> Raise("TypeError", << "type str doesn't define __round__ method" >>)

\* fallback: int(row_data["volume"].iloc[0])
IntCell(f, col) ==
  CASE f.kind = "num"    -> Value(f.val)
    [] f.kind = "absent" -> Raise("KeyError", << "'", col, "'" >>)
    [] f.kind = "null"   -> Raise("ValueError", << "cannot convert float NaN to integer" >>)
    [] f.kind = "text"   -> Raise("ValueError", << "invalid literal for int() with base 10: ", col >>)

\* The row dict of one job; the fields are evaluated in the order written and
\* the first exception is the one raised.  close stands for the five price
\* fields, which are all converted the same way.
FirstRaised(parts) ==
  LET bad == { n \in 1..Len(parts) : ~parts[n].ok }
  IN  IF bad = {} THEN Value(0)
      ELSE parts[CHOOSE n \in bad : \A m \in bad : n <= m]

RowOf(symbol_upper, dt, c, vol, dv, sp) ==
  LET first == FirstRaised(<< c, vol, dv, sp >>)
  IN  IF first.ok
      THEN [ok |-> TRUE, kind |-> "none", exc |-> NULL,
            row |-> [symbol |-> symbol_upper, trade_date |-> dt,
                     close |-> c.val, volume |-> vol.val,
                     dividend_amount |-> dv.val, split_coefficient |-> sp.val]]
      ELSE [ok |-> FALSE, kind |-> first.kind, exc |-> first.exc, row |-> NoRow]

BuildRow(v, symbol_upper, dt, rec) ==
  CASE v = "single" ->
         RowOf(symbol_upper, dt,
               RoundFloatOf(rec.close, "4. close"),
               IntOf(rec.volume, "6. volume"),
               RoundFloatGet(rec.dividend, "7. dividend amount", 0),
               RoundFloatGet(rec.split, "8. split coefficient", 10000))
    [] v = "multi" ->
         RowOf(symbol_upper, dt,
               RoundFloatOf(rec.close, "4. close"),
               IntOf(rec.volume, "6. volume"),
               RoundFloatGetOr(rec.dividend, "7. dividend amount", 0),
               RoundFloatGetOr(rec.split, "8. split coefficient", 10000))
    [] v = "fallback" ->
         RowOf(symbol_upper, dt,
               RoundCell(rec.close, "close"),
               IntCell(rec.volume, "volume"),
               Value(0),
               Value(10000))

\* ------------------------------------------------------------ providers
\* What the HTTP endpoint may answer for a symbol whose jobs need dates ds.
Responses(ds) ==
  { [raised |-> TRUE, status_code |-> 0, error |-> FALSE, note |-> FALSE,
     has_series |-> FALSE, series |-> NoSeries],
    [raised |-> FALSE, status_code |-> 500, error |-> FALSE, note |-> FALSE,
     has_series |-> FALSE, series |-> NoSeries] }
  \cup
  { [raised |-> FALSE, status_code |-> 200, error |-> e, note |-> n,
     has_series |-> FALSE, series |-> NoSeries] : e \in BOOLEAN, n \in BOOLEAN }
  \cup
  { [raised |-> FALSE, status_code |-> 200, error |-> e, note |-> n,
     has_series |-> TRUE, series |-> s] :
       e \in BOOLEAN, n \in BOOLEAN, s \in SeriesOver(ds) }

\* fetch_symbol_data of the single-date script.
FetchSingle(resp) ==
  IF resp.raised THEN [ok |-> FALSE, series |-> NoSeries, exc |-> READ_TIMEOUT]
  ELSE IF resp.status_code # 200
    THEN [ok |-> FALSE, series |-> NoSeries, exc |-> << "HTTP ", "500" >>]
  ELSE IF resp.error
    THEN [ok |-> FALSE, series |-> NoSeries, exc |-> << "Invalid API call." >>]
  ELSE IF resp.note
    THEN [ok |-> FALSE, series |-> NoSeries, exc |-> << "Thank you for using Alpha Vantage! Our standard API rate limit is reached." >>]
  ELSE IF ~resp.has_series
    THEN [ok |-> FALSE, series |-> NoSeries, exc |-> << "Missing 'Time Series (Daily)' in response" >>]
  ELSE [ok |-> TRUE, series |-> resp.series, exc |-> NULL]

\* fetch_symbol_data of the multi-day script: every exception is wrapped.
FetchMulti(symbol, resp) ==
  LET r == FetchSingle(resp)
  IN  IF r.ok THEN r
      ELSE [ok |-> FALSE, series |-> NoSeries,
            exc |-> << symbol, " API error: " >> \o r.exc]

fetch_symbol_data(v, symbol, resp) ==
  IF v = "single" THEN FetchSingle(resp) ELSE FetchMulti(symbol, resp)

\* What yf.download may do: raise, or return a frame (empty or not).
YfResponses(ds) ==
  { [raised |-> TRUE, df |-> NoSeries] }
  \cup { [raised |-> FALSE, df |-> s] : s \in SeriesOver(ds) }


\* ------------------------------------------------------------- the runs
Variants == {"single", "multi", "fallback"}
Primary == {"single", "multi"}

Min(a, b) == IF a < b THEN a ELSE b

\* The clock moves on by d seconds: calls older than 60 s leave the window.
Advance(ages, d) ==
  LET moved == [n \in 1..Len(ages) |-> ages[n] + d]
  IN  SelectSeq(moved, LAMBDA a : a < 60)

\* groupby("symbol"): the jobs of one raw symbol are one group.
GroupStart(n) == n = 1 \/ jobs[n - 1].symbol # jobs[n].symbol
GroupEnd(n) ==
  CHOOSE m \in n..Len(jobs) :
    /\ \A x \in n..m : jobs[x].symbol = jobs[n].symbol
    /\ m = Len(jobs) \/ jobs[m + 1].symbol # jobs[n].symbol

\* The dates the jobs served by one fetch look up in its series.
DatesNeeded(n) ==
  IF variant = "single" THEN {trade_date}
  ELSE { jobs[x].trade_date : x \in n..GroupEnd(n) }

\* The date the job in hand looks up.
JobDate(n) == IF variant = "single" THEN trade_date ELSE jobs[n].trade_date

\* What an earlier run may have left in a job row, and the price row a
\* SUCCESS of an earlier run stands for.
InitialStates ==
  { [status |-> "PENDING", error_message |-> NULL],
    [status |-> "FAILED", error_message |-> NO_DATA_MSG],
    [status |-> "FAILED", error_message |-> << API_ERROR >> \o READ_TIMEOUT],
    [status |-> "SUCCESS", error_message |-> NULL] }

EarlierPrice(symbol, dt) ==
  [symbol |-> Upper(symbol), trade_date |-> dt, close |-> 777, volume |-> 7,
   dividend_amount |-> 0, split_coefficient |-> 10000]

InitialRows ==
  { [symbol |-> s, trade_date |-> d, status |-> st.status,
     error_message |-> st.error_message] :
      s \in Symbols, d \in Dates, st \in InitialStates }

StateRank(r) ==
  CASE r.status = "PENDING" -> 1
    [] r.status = "SUCCESS" -> 2
    [] r.error_message = NO_DATA_MSG -> 3
    [] OTHER -> 4

\* Job ids are names only (no script compares them), so the tables are taken
\* up to renaming of the ids: rows in descending order of their content.
RowNotBefore(a, b) ==
  \/ SymRank(a.symbol) > SymRank(b.symbol)
  \/ /\ a.symbol = b.symbol
     /\ \/ a.trade_date > b.trade_date
        \/ a.trade_date = b.trade_date /\ StateRank(a) >= StateRank(b)

\* No script has started.
RunIdle ==
  /\ variant = "none"
  /\ trade_date = FIXED_TRADE_DATE
  /\ jobs = << >>
  /\ i = 1
  /\ k = 1
  /\ series_cache = << >>
  /\ series = NoSeries
  /\ row = NoRow
  /\ err = NULL
  /\ req_counter = 0
  /\ elapsed = 0
  /\ recent = << >>
  /\ pc = "idle"
  /\ exit_code = -1
  /\ done_msg = FALSE
  /\ interrupted = FALSE
  /\ fatal = FALSE
  /\ fetch_calls = << >>
  /\ upserts = << >>

\* The file-driven script is not part of the run.
FileOff ==
  /\ symbols = << >>
  /\ batch_start = 1
  /\ attempt = 1
  /\ data = << >>
  /\ sym_idx = 1
  /\ records = << >>
  /\ log = << >>
  /\ downloads = << >>
  /\ sleeps = << >>
  /\ csv = << >>
  /\ fpc = "off"

Init ==
  /\ job_rows \in [JobIds -> InitialRows]
  /\ \A a, b \in JobIds : a < b => RowNotBefore(job_rows[a], job_rows[b])
  /\ daily_prices = { EarlierPrice(job_rows[j].symbol, job_rows[j].trade_date) :
                        j \in { x \in JobIds : job_rows[x].status = "SUCCESS" } }
  /\ tx_job_rows = job_rows
  /\ tx_daily_prices = daily_prices
  /\ RunIdle
  /\ FileOff

\* A script starts: it connects, loads its jobs and, with none, exits at once.
StartRun(v, d) ==
  /\ pc = "idle"
  /\ v = "single" \/ d = FIXED_TRADE_DATE
  /\ variant' = v
  /\ trade_date' = d
  /\ \E q \in QueryResults(v, d, job_rows) :
       /\ jobs' = q
       /\ IF q = << >>
          THEN pc' = "exited" /\ exit_code' = 0
          ELSE pc' = "loop" /\ exit_code' = -1
  /\ i' = 1
  /\ k' = 1
  /\ series_cache' = << >>
  /\ series' = NoSeries
  /\ row' = NoRow
  /\ err' = NULL
  /\ req_counter' = 0
  /\ elapsed' = 0
  /\ recent' = << >>
  /\ done_msg' = FALSE
  /\ interrupted' = FALSE
  /\ fatal' = FALSE
  /\ fetch_calls' = << >>
  /\ upserts' = << >>
  /\ tx_job_rows' = job_rows
  /\ tx_daily_prices' = daily_prices
  /\ UNCHANGED << job_rows, daily_prices >>
  /\ UNCHANGED fileVars

\* The loop is exhausted: the connection is closed, the last line printed.
Finish ==
  /\ pc = "loop"
  /\ i > Len(jobs)
  /\ pc' = "exited"
  /\ exit_code' = 0
  /\ done_msg' = TRUE
  /\ UNCHANGED << dbVars, rateVars, variant, trade_date, jobs, i, k,
                  series_cache, series, row, err, interrupted, fatal,
                  fetch_calls, upserts >>
  /\ UNCHANGED fileVars

\* The head of one iteration: a fetch is due, or the series is at hand.
BeginJob ==
  /\ pc = "loop"
  /\ i <= Len(jobs)
  /\ IF variant = "single"
     THEN IF Upper(jobs[i].symbol) \in DOMAIN series_cache
          THEN /\ series' = series_cache[Upper(jobs[i].symbol)]
               /\ pc' = "lookup"
          ELSE /\ pc' = "rate"
               /\ UNCHANGED series
     ELSE /\ UNCHANGED series
          /\ IF GroupStart(i)
             THEN pc' = IF variant = "multi" THEN "rate" ELSE "fetch"
             ELSE pc' = "lookup"
  /\ UNCHANGED << dbVars, rateVars, endVars, variant, trade_date, jobs, i, k,
                  series_cache, row, err, fetch_calls, upserts >>
  /\ UNCHANGED fileVars

\* Time passes before the limiter reads the clock.
Tick ==
  /\ pc = "rate"
  /\ \E d \in TickSteps :
       /\ elapsed' = Min(elapsed + d, 60)
       /\ recent' = Advance(recent, d)
  /\ \/ elapsed < 60
     \/ recent # << >>
  /\ UNCHANGED << dbVars, endVars, variant, trade_date, jobs, i, k,
                  series_cache, series, row, err, req_counter, pc,
                  fetch_calls, upserts >>
  /\ UNCHANGED fileVars

\* if req_counter >= MAX_REQ_PER_MIN and (now - minute_start) < 60
RateLimitHit(counter, since) == counter >= MAX_REQ_PER_MIN /\ since < 60

RateCheck ==
  /\ pc = "rate"
  /\ pc' = IF RateLimitHit(req_counter, elapsed) THEN "sleep" ELSE "fetch"
  /\ UNCHANGED << dbVars, rateVars, endVars, variant, trade_date, jobs, i, k,
                  series_cache, series, row, err, fetch_calls, upserts >>
  /\ UNCHANGED fileVars

\* time.sleep(COOLDOWN_SECS - (now - minute_start)), then the window restarts.
Sleep ==
  /\ pc = "sleep"
  /\ recent' = Advance(recent, COOLDOWN_SECS - elapsed)
  /\ req_counter' = 0
  /\ elapsed' = 0
  /\ pc' = "fetch"
  /\ UNCHANGED << dbVars, endVars, variant, trade_date, jobs, i, k,
                  series_cache, series, row, err, fetch_calls, upserts >>
  /\ UNCHANGED fileVars


\* Faulty variant: the commit makes the job rows durable and loses the prices.
CommitJobsOnly ==
  /\ job_rows' = tx_job_rows
  /\ daily_prices' = daily_prices
  /\ UNCHANGED << tx_job_rows, tx_daily_prices >>

\* PG_CONN.commit() and PG_CONN.rollback()
CommitTx ==
  /\ job_rows' = tx_job_rows
  /\ daily_prices' = tx_daily_prices
  /\ UNCHANGED << tx_job_rows, tx_daily_prices >>

\* Faulty variant: the handler commits what is staged instead of dropping it.
RollbackCommits ==
  /\ job_rows' = tx_job_rows
  /\ daily_prices' = tx_daily_prices
  /\ UNCHANGED << tx_job_rows, tx_daily_prices >>

RollbackTx ==
  /\ tx_job_rows' = job_rows
  /\ tx_daily_prices' = daily_prices
  /\ UNCHANGED << job_rows, daily_prices >>

\* The provider call of a primary run.  req_counter += 1 follows the call
\* inside the try, so an exception skips it.
CountedAfter(counter, ok) == IF ok THEN counter + 1 ELSE counter

\* series_cache[symbol] = fetch_symbol_data(symbol): nothing is stored when
\* the call raises.
CacheAfter(cache, symbol, r) ==
  IF r.ok
  THEN [s \in DOMAIN cache \cup {symbol} |->
          IF s = symbol THEN r.series ELSE cache[s]]
  ELSE cache

Fetch ==
  /\ pc = "fetch"
  /\ variant \in Primary
  /\ \E resp \in Responses(DatesNeeded(i)) :
       LET symbol == Upper(jobs[i].symbol)
           r      == fetch_symbol_data(variant, symbol, resp)
       IN  /\ fetch_calls' = Append(fetch_calls, [symbol |-> symbol, ok |-> r.ok])
           /\ recent' = Append(recent, 0)
           /\ req_counter' = CountedAfter(req_counter, r.ok)
           /\ series_cache' = IF variant = "single"
                              THEN CacheAfter(series_cache, symbol, r)
                              ELSE series_cache
           /\ IF r.ok
              THEN /\ series' = r.series
                   /\ pc' = "lookup"
                   /\ UNCHANGED << err, k >>
              ELSE /\ err' = << API_ERROR >> \o r.exc
                   /\ pc' = IF variant = "single" THEN "mark_failed" ELSE "fail_mark"
                   /\ k' = i
                   /\ UNCHANGED series
  /\ UNCHANGED << dbVars, endVars, variant, trade_date, jobs, i, row, elapsed,
                  upserts >>
  /\ UNCHANGED fileVars

\* yf.download of the fallback run, and the df.empty test after it.
YfDownload ==
  /\ pc = "fetch"
  /\ variant = "fallback"
  /\ \E resp \in YfResponses(DatesNeeded(i)) :
       /\ fetch_calls' = Append(fetch_calls,
                                [symbol |-> Upper(jobs[i].symbol),
                                 ok |-> ~resp.raised /\ DOMAIN resp.df # {}])
       /\ IF resp.raised
          THEN /\ err' = << YF_ERROR, "download failed" >>
               /\ pc' = "fail_mark"
               /\ k' = i
               /\ UNCHANGED series
          ELSE IF DOMAIN resp.df = {}
          THEN /\ err' = YF_EMPTY_MSG
               /\ pc' = "fail_mark"
               /\ k' = i
               /\ UNCHANGED series
          ELSE /\ series' = resp.df
               /\ pc' = "lookup"
               /\ UNCHANGED << err, k >>
  /\ UNCHANGED << dbVars, rateVars, endVars, variant, trade_date, jobs, i,
                  series_cache, row, upserts >>
  /\ UNCHANGED fileVars

\* multi, fallback: for jid in job_ids: mark_job(cur, jid, "FAILED", err_msg)
MarkGroupFailed ==
  /\ pc = "fail_mark"
  /\ tx_job_rows' = mark_job(tx_job_rows, jobs[k].job_id, "FAILED", err)
  /\ IF k = GroupEnd(i)
     THEN pc' = "fail_commit" /\ UNCHANGED k
     ELSE k' = k + 1 /\ UNCHANGED pc
  /\ UNCHANGED << job_rows, daily_prices, tx_daily_prices, rateVars, endVars,
                  variant, trade_date, jobs, i, series_cache, series, row, err,
                  fetch_calls, upserts >>
  /\ UNCHANGED fileVars

\* ... then one PG_CONN.commit() for the group, and continue.
CommitGroupFailed ==
  /\ pc = "fail_commit"
  /\ CommitTx
  /\ i' = GroupEnd(i) + 1
  /\ pc' = "loop"
  /\ UNCHANGED << rateVars, endVars, variant, trade_date, jobs, k,
                  series_cache, series, row, err, fetch_calls, upserts >>
  /\ UNCHANGED fileVars

\* if iso_dt not in series (single, multi); df.loc[dt] (fallback)
Lookup ==
  /\ pc = "lookup"
  /\ IF JobDate(i) \in DOMAIN series
     THEN pc' = "row" /\ UNCHANGED err
     ELSE pc' = "mark_failed" /\ err' = NO_DATA_MSG
  /\ UNCHANGED << dbVars, rateVars, endVars, variant, trade_date, jobs, i, k,
                  series_cache, series, row, fetch_calls, upserts >>
  /\ UNCHANGED fileVars

\* Where an exception raised while the row is built lands:
\*   single    outside every try: the script dies with a traceback;
\*   multi     inside the insert try: except Exception;
\*   fallback  inside the try: except KeyError before except Exception.
RowErrorTarget(v, kind) ==
  CASE v = "single" -> "crash"
    [] v = "multi" -> "rollback"
    [] v = "fallback" -> IF kind = "KeyError" THEN "nodata" ELSE "rollback"

MakeRow ==
  /\ pc = "row"
  /\ LET b == BuildRow(variant, Upper(jobs[i].symbol), JobDate(i), series[JobDate(i)])
         t == RowErrorTarget(variant, b.kind)
     IN  IF b.ok
         THEN /\ row' = b.row
              /\ pc' = "insert"
              /\ UNCHANGED << err, exit_code, fatal, dbVars >>
         ELSE /\ UNCHANGED row
              /\ CASE t = "crash" ->
                        /\ pc' = "exited"
                        /\ exit_code' = 1
                        /\ fatal' = TRUE
                        /\ RollbackTx
                        /\ UNCHANGED err
                   [] t = "rollback" ->
                        /\ pc' = "rollback"
                        /\ err' = << INSERT_ERROR >> \o b.exc
                        /\ UNCHANGED << exit_code, fatal, dbVars >>
                   [] t = "nodata" ->
                        /\ pc' = "mark_failed"
                        /\ err' = NO_DATA_MSG
                        /\ UNCHANGED << exit_code, fatal, dbVars >>
  /\ UNCHANGED << rateVars, done_msg, interrupted, variant, trade_date, jobs,
                  i, k, series_cache, series, fetch_calls, upserts >>
  /\ UNCHANGED fileVars

\* cur.execute(INSERT_PRICE_SQL, row)
Insert ==
  /\ pc = "insert"
  /\ tx_daily_prices' = InsertPrice(tx_daily_prices, row)
  /\ upserts' = Append(upserts, [job_id |-> jobs[i].job_id, row |-> row])
  /\ pc' = "mark_success"
  /\ UNCHANGED << job_rows, daily_prices, tx_job_rows, rateVars, endVars,
                  variant, trade_date, jobs, i, k, series_cache, series, row,
                  err, fetch_calls >>
  /\ UNCHANGED fileVars

\* The statement is rejected by the database (not a lost connection).
InsertRaises ==
  /\ pc = "insert"
  /\ err' = << INSERT_ERROR, "database error" >>
  /\ pc' = "rollback"
  /\ UNCHANGED << dbVars, rateVars, endVars, variant, trade_date, jobs, i, k,
                  series_cache, series, row, fetch_calls, upserts >>
  /\ UNCHANGED fileVars

\* mark_job(cur, jid, "SUCCESS")
MarkSuccess ==
  /\ pc = "mark_success"
  /\ tx_job_rows' = mark_job(tx_job_rows, jobs[i].job_id, "SUCCESS", NULL)
  /\ pc' = "commit"
  /\ UNCHANGED << job_rows, daily_prices, tx_daily_prices, rateVars, endVars,
                  variant, trade_date, jobs, i, k, series_cache, series, row,
                  err, fetch_calls, upserts >>
  /\ UNCHANGED fileVars

\* PG_CONN.commit() of the insert and the SUCCESS mark
CommitSuccess ==
  /\ pc = "commit"
  /\ CommitTx
  /\ i' = i + 1
  /\ pc' = "loop"
  /\ UNCHANGED << rateVars, endVars, variant, trade_date, jobs, k,
                  series_cache, series, row, err, fetch_calls, upserts >>
  /\ UNCHANGED fileVars

CommitRaises ==
  /\ pc = "commit"
  /\ err' = << INSERT_ERROR, "commit failed" >>
  /\ pc' = "rollback"
  /\ UNCHANGED << dbVars, rateVars, endVars, variant, trade_date, jobs, i, k,
                  series_cache, series, row, fetch_calls, upserts >>
  /\ UNCHANGED fileVars

\* Faulty variant: the except branch goes on without PG_CONN.rollback().
RollbackSkipped ==
  /\ pc = "rollback"
  /\ pc' = "mark_failed"
  /\ UNCHANGED << dbVars, rateVars, endVars, variant, trade_date, jobs, i, k,
                  series_cache, series, row, err, fetch_calls, upserts >>
  /\ UNCHANGED fileVars

\* except Exception: PG_CONN.rollback()
Rollback ==
  /\ pc = "rollback"
  /\ RollbackTx
  /\ pc' = "mark_failed"
  /\ UNCHANGED << rateVars, endVars, variant, trade_date, jobs, i, k,
                  series_cache, series, row, err, fetch_calls, upserts >>
  /\ UNCHANGED fileVars

\* mark_job(cur, jid, "FAILED", err) of one job
MarkFailed ==
  /\ pc = "mark_failed"
  /\ tx_job_rows' = mark_job(tx_job_rows, jobs[i].job_id, "FAILED", err)
  /\ pc' = "commit_failed"
  /\ UNCHANGED << job_rows, daily_prices, tx_daily_prices, rateVars, endVars,
                  variant, trade_date, jobs, i, k, series_cache, series, row,
                  err, fetch_calls, upserts >>
  /\ UNCHANGED fileVars

\* Faulty variant: the run ends after the FAILED mark is committed.
CommitFailedStops ==
  /\ pc = "commit_failed"
  /\ CommitTx
  /\ pc' = "exited"
  /\ exit_code' = 1
  /\ UNCHANGED << rateVars, done_msg, interrupted, fatal, variant, trade_date,
                  jobs, i, k, series_cache, series, row, err, fetch_calls,
                  upserts >>
  /\ UNCHANGED fileVars

\* ... and its PG_CONN.commit(), then the next job
CommitFailed ==
  /\ pc = "commit_failed"
  /\ CommitTx
  /\ i' = i + 1
  /\ pc' = "loop"
  /\ UNCHANGED << rateVars, endVars, variant, trade_date, jobs, k,
                  series_cache, series, row, err, fetch_calls, upserts >>
  /\ UNCHANGED fileVars

\* The exit status after except KeyboardInterrupt: the single-date script
\* has no raise SystemExit(1) and runs on to its last line.
InterruptExit(v) == IF v = "single" THEN 0 ELSE 1
InterruptPrintsDone(v) == v = "single"

\* Ctrl+C anywhere inside the try: rollback, close.
Interrupt ==
  /\ pc \notin {"idle", "exited"}
  /\ RollbackTx
  /\ interrupted' = TRUE
  /\ exit_code' = InterruptExit(variant)
  /\ done_msg' = InterruptPrintsDone(variant)
  /\ pc' = "exited"
  /\ UNCHANGED << rateVars, fatal, variant, trade_date, jobs, i, k,
                  series_cache, series, row, err, fetch_calls, upserts >>
  /\ UNCHANGED fileVars

\* The positions at which the script talks to the database.
DbPcs == {"fail_mark", "fail_commit", "mark_failed", "commit_failed",
          "insert", "mark_success", "commit", "rollback"}

\* Faulty variant: the lost connection is taken for a failed job and the run
\* goes on with the next one.
ConnectionLostSwallowed ==
  /\ pc \in DbPcs
  /\ RollbackTx
  /\ fatal' = TRUE
  /\ i' = i + 1
  /\ pc' = "loop"
  /\ UNCHANGED << rateVars, exit_code, done_msg, interrupted, variant,
                  trade_date, jobs, k, series_cache, series, row, err,
                  fetch_calls, upserts >>
  /\ UNCHANGED fileVars

\* psycopg.OperationalError: the connection is lost, the server drops the
\* open transaction, and the script ends with status 1 (the handler of the
\* multi and fallback scripts; an uncaught exception in the single script).
ConnectionLost ==
  /\ pc \in DbPcs
  /\ RollbackTx
  /\ fatal' = TRUE
  /\ exit_code' = 1
  /\ pc' = "exited"
  /\ UNCHANGED << rateVars, done_msg, interrupted, variant, trade_date, jobs,
                  i, k, series_cache, series, row, err, fetch_calls, upserts >>
  /\ UNCHANGED fileVars

\* The steps of a run once it has started.
Step ==
  \/ Finish
  \/ BeginJob
  \/ RateCheck
  \/ Sleep
  \/ Fetch
  \/ MarkGroupFailed
  \/ CommitGroupFailed
  \/ Lookup
  \/ MakeRow
  \/ Insert
  \/ InsertRaises
  \/ MarkSuccess
  \/ CommitSuccess
  \/ CommitRaises
  \/ Rollback
  \/ MarkFailed
  \/ CommitFailed
  \/ Interrupt
  \/ ConnectionLost

\* Any of the three scripts runs once on a job table that earlier runs have
\* left; the provider calls of the run follow each other at once.
Next ==
  \/ \E v \in Variants, d \in Dates : StartRun(v, d)
  \/ YfDownload
  \/ Step

Spec == Init /\ [][Next]_vars

\* A primary run on the fixed date's pending jobs, with time passing between
\* the provider calls.
InitRate ==
  /\ Init
  /\ \A j \in JobIds : /\ job_rows[j].status = "PENDING"
                       /\ job_rows[j].trade_date = FIXED_TRADE_DATE

NextRate ==
  \/ \E v \in Primary : StartRun(v, FIXED_TRADE_DATE)
  \/ Tick
  \/ Step

SpecRate == InitRate /\ [][NextRate]_vars

\* ------------------------------------------------ the file-driven script
\* take_data_from_ticker_file_save_in_csv_and_log_file.py: symbols come from
\* a ticker file, are downloaded in batches and end in a CSV and a log.

\* An empty cell of the ticker file's symbol column (NaN once read).
EmptyCell == ""
TickerCells == Symbols \cup {"GOOG", EmptyCell}
TickerFiles == UNION { [1..n -> TickerCells] : n \in 0..MaxTickers }

\* .unique(): the first occurrence of each value, in order.
RECURSIVE Unique(_)
Unique(seq) ==
  IF seq = << >> THEN << >>
  ELSE LET rest == Unique(SubSeq(seq, 1, Len(seq) - 1))
           last == seq[Len(seq)]
       IN  IF \E n \in 1..Len(rest) : rest[n] = last
           THEN rest
           ELSE Append(rest, last)

\* tickers_df["symbol"].str.upper().dropna().unique().tolist()
LoadSymbols(cells) ==
  Unique(SelectSeq([n \in 1..Len(cells) |-> Upper(cells[n])],
                   LAMBDA c : c # EmptyCell))

\* chunk(symbols, BATCH_SIZE): the batch that starts at index b.
Batch(b) == SubSeq(symbols, b, Min(b + BATCH_SIZE - 1, Len(symbols)))
BatchEnd(b) == Min(b + BATCH_SIZE - 1, Len(symbols))

\* One day's row of a downloaded frame: a value or NaN in each column.
FileRows ==
  { [open |-> Num(15012336), close |-> Num(15012336), volume |-> Num(1000000),
     dividends |-> AbsentF, splits |-> AbsentF],
    [open |-> NullF,         close |-> Num(99996),    volume |-> Num(200),
     dividends |-> Num(0),   splits |-> Num(0)],
    [open |-> Num(99996),    close |-> NullF,         volume |-> Num(200),
     dividends |-> Num(0),   splits |-> Num(0)],
    [open |-> Num(99996),    close |-> Num(99996),    volume |-> NullF,
     dividends |-> Num(0),   splits |-> Num(0)],
    [open |-> Num(99996),    close |-> Num(99996),    volume |-> Num(200),
     dividends |-> NullF,    splits |-> Num(0)],
    [open |-> Num(99996),    close |-> Num(99996),    volume |-> Num(200),
     dividends |-> Num(22000), splits |-> Num(200000)] }

\* What download_batch may return: a frame per symbol for some of the batch's
\* symbols, each with or without a row for TRADE_DATE.
DownloadResults(batch) ==
  LET syms   == { batch[n] : n \in 1..Len(batch) }
      frames == UNION { [D -> FileRows] : D \in SUBSET {TRADE_DATE} }
  IN  UNION { [S -> frames] : S \in SUBSET syms }

BATCH_ERROR == "batch-error: "
MISSING_MSG == << "missing price or volume" >>

LogEntry(sym, status, msg) == [sym |-> sym, status |-> status, msg |-> msg]

\* pd.isna(x)
IsNa(f) == f.kind = "null"

\* round(row.get(col, default) or default, 4): a zero is falsy and gives the
\* default, a NaN is truthy and stays a NaN (default in 1e-4 units).
RoundGetOr(f, default) ==
  CASE f.kind = "absent" -> Value(default)
    [] f.kind = "null"   -> Value(-1)
    [] f.kind = "num"    -> IF f.val = 0 THEN Value(default) ELSE Value(Round4(f.val))
    [] f.kind = "text"   -> Raise("TypeError", << "type str doesn't define __round__ method" >>)

\* The body of the per-symbol try: the record appended and the line logged,
\* or the line logged by except Exception.
ProcessSymbolResult(sym, d) ==
  IF sym \notin DOMAIN d
  THEN [ok |-> FALSE, msg |-> << "symbol not in downloaded data" >>, rec |-> NoRow]
  ELSE IF TRADE_DATE \notin DOMAIN d[sym]
  THEN [ok |-> FALSE, msg |-> << "trade_date not in data" >>, rec |-> NoRow]
  ELSE LET r == d[sym][TRADE_DATE]
       IN  IF IsNa(r.close) \/ IsNa(r.volume)
           THEN [ok |-> FALSE, msg |-> MISSING_MSG, rec |-> NoRow]
           ELSE LET o     == RoundCell(r.open, "Open")
                    c     == RoundCell(r.close, "Close")
                    v     == IntCell(r.volume, "Volume")
                    dv    == RoundGetOr(r.dividends, 0)
                    sp    == RoundGetOr(r.splits, 10000)
                    first == FirstRaised(<< o, c, v, dv, sp >>)
                IN  IF first.ok
                    THEN [ok |-> TRUE, msg |-> NULL,
                          rec |-> [symbol |-> sym, trade_date |-> TRADE_DATE,
                                   open |-> o.val, close |-> c.val,
                                   volume |-> v.val,
                                   dividend_amount |-> dv.val,
                                   split_coeff |-> sp.val]]
                    ELSE [ok |-> FALSE, msg |-> first.exc, rec |-> NoRow]

\* Faulty variant: only the first symbol of the batch is logged.
BatchErrorLogFirstOnly(batch, e) ==
  << LogEntry(batch[1], "FAILED", << BATCH_ERROR >> \o e) >>

\* for sym in batch: log_result(sym, "FAILED", f"batch-error: {e}")
BatchErrorLog(batch, e) ==
  [n \in 1..Len(batch) |-> LogEntry(batch[n], "FAILED", << BATCH_ERROR >> \o e)]

\* Faulty variant: the same pause after every failed attempt.
BackoffFlat(a) == BACKOFF_BASE

\* time.sleep(2 * attempt)
Backoff(a) == BACKOFF_BASE * a

\* The script has read its ticker file; the database scripts are not run.
InitFile ==
  /\ job_rows = [j \in JobIds |->
                   [symbol |-> "AAPL", trade_date |-> FIXED_TRADE_DATE,
                    status |-> "PENDING", error_message |-> NULL]]
  /\ daily_prices = {}
  /\ tx_job_rows = job_rows
  /\ tx_daily_prices = daily_prices
  /\ RunIdle
  /\ symbols \in { LoadSymbols(c) : c \in TickerFiles }
  /\ batch_start = 1
  /\ attempt = 1
  /\ data = << >>
  /\ sym_idx = 1
  /\ records = << >>
  /\ log = << >>
  /\ downloads = << >>
  /\ sleeps = << >>
  /\ csv = << >>
  /\ fpc = "start"

\* if not symbols: raise SystemExit
CheckSymbols ==
  /\ fpc = "start"
  /\ fpc' = IF symbols = << >> THEN "done" ELSE "batch"
  /\ UNCHANGED << symbols, batch_start, attempt, data, sym_idx, records, log,
                  downloads, sleeps, csv >>
  /\ UNCHANGED runVars

\* for batch in chunk(symbols, BATCH_SIZE): attempt = 1
NextBatch ==
  /\ fpc = "batch"
  /\ IF batch_start > Len(symbols)
     THEN /\ fpc' = "write"
          /\ UNCHANGED << attempt, downloads, sleeps >>
     ELSE /\ fpc' = "retry"
          /\ attempt' = 1
          /\ downloads' = << >>
          /\ sleeps' = << >>
  /\ UNCHANGED << symbols, batch_start, data, sym_idx, records, log, csv >>
  /\ UNCHANGED runVars

\* data = download_batch(batch); break
DownloadOk ==
  /\ fpc = "retry"
  /\ attempt <= MAX_RETRIES
  /\ \E d \in DownloadResults(Batch(batch_start)) : data' = d
  /\ downloads' = Append(downloads, TRUE)
  /\ sym_idx' = batch_start
  /\ fpc' = "symbols"
  /\ UNCHANGED << symbols, batch_start, attempt, records, log, sleeps, csv >>
  /\ UNCHANGED runVars

\* except Exception: log the batch on the last attempt, sleep otherwise
DownloadFails ==
  /\ fpc = "retry"
  /\ attempt <= MAX_RETRIES
  /\ downloads' = Append(downloads, FALSE)
  /\ IF attempt = MAX_RETRIES
     THEN /\ log' = log \o BatchErrorLog(Batch(batch_start), << "download failed" >>)
          /\ UNCHANGED sleeps
     ELSE /\ sleeps' = Append(sleeps, Backoff(attempt))
          /\ UNCHANGED log
  /\ attempt' = attempt + 1
  /\ UNCHANGED << symbols, batch_start, data, sym_idx, records, csv, fpc >>
  /\ UNCHANGED runVars

\* while ... else: continue (the pause after the batch is skipped)
RetriesExhausted ==
  /\ fpc = "retry"
  /\ attempt > MAX_RETRIES
  /\ batch_start' = batch_start + BATCH_SIZE
  /\ fpc' = "batch"
  /\ UNCHANGED << symbols, attempt, data, sym_idx, records, log, downloads,
                  sleeps, csv >>
  /\ UNCHANGED runVars

\* for sym in batch: one symbol
ProcessSymbol ==
  /\ fpc = "symbols"
  /\ LET sym == symbols[sym_idx]
         r   == ProcessSymbolResult(sym, data)
     IN  IF r.ok
         THEN /\ records' = Append(records, r.rec)
              /\ log' = Append(log, LogEntry(sym, "SUCCESS", NULL))
         ELSE /\ UNCHANGED records
              /\ log' = Append(log, LogEntry(sym, "FAILED", r.msg))
  /\ IF sym_idx = BatchEnd(batch_start)
     THEN fpc' = "pause" /\ UNCHANGED sym_idx
     ELSE sym_idx' = sym_idx + 1 /\ UNCHANGED fpc
  /\ UNCHANGED << symbols, batch_start, attempt, data, downloads, sleeps, csv >>
  /\ UNCHANGED runVars

\* time.sleep(random.uniform(MIN_SLEEP, MAX_SLEEP)), then the next batch
Pause ==
  /\ fpc = "pause"
  /\ batch_start' = batch_start + BATCH_SIZE
  /\ fpc' = "batch"
  /\ UNCHANGED << symbols, attempt, data, sym_idx, records, log, downloads,
                  sleeps, csv >>
  /\ UNCHANGED runVars

\* if records: out_df.to_csv(PRICES_OUT_CSV, mode="a", ...)
WriteCsv ==
  /\ fpc = "write"
  /\ csv' = csv \o records
  /\ fpc' = "done"
  /\ UNCHANGED << symbols, batch_start, attempt, data, sym_idx, records, log,
                  downloads, sleeps >>
  /\ UNCHANGED runVars

NextFile ==
  \/ CheckSymbols
  \/ NextBatch
  \/ DownloadOk
  \/ DownloadFails
  \/ RetriesExhausted
  \/ ProcessSymbol
  \/ Pause
  \/ WriteCsv

SpecFile == InitFile /\ [][NextFile]_vars

TypeOK ==
  /\ pc \in {"idle", "exited", "loop", "rate", "sleep", "fetch", "fail_mark",
             "fail_commit", "lookup", "row", "insert", "mark_success",
             "commit", "rollback", "mark_failed", "commit_failed"}
  /\ exit_code \in {-1, 0, 1}
  /\ req_counter \in 0..NJobs
  /\ elapsed \in 0..60
  /\ fpc \in {"off", "start", "batch", "retry", "symbols", "pause", "write",
              "done"}
  /\ attempt \in 1..(MAX_RETRIES + 1)

\* ================================================================ claims
\* The run went through its whole batch: no interrupt, no fatal error.
RanToEnd == pc = "exited" /\ ~interrupted /\ ~fatal
LoadedIds == { jobs[n].job_id : n \in 1..Len(jobs) }
UpperSymbols == { Upper(s) : s \in Symbols }
CallsFor(s) == Cardinality({ n \in 1..Len(fetch_calls) : fetch_calls[n].symbol = s })

\* C1: once a run has gone through its whole batch (no interrupt, no fatal
\* abort), every loaded job is committed as SUCCESS or FAILED, none is PENDING.
C1_TerminalStatus ==
  RanToEnd =>
    \A j \in LoadedIds : job_rows[j].status \in {"SUCCESS", "FAILED"}

\* A primary run ended normally with both outcomes among its jobs.
C1_Witness ==
  /\ RanToEnd
  /\ variant \in Primary
  /\ \E a, b \in LoadedIds : /\ job_rows[a].status = "SUCCESS"
                             /\ job_rows[b].status = "FAILED"

\* C2: no rolling 60-second window of a primary run holds more than
\* 2 x MAX_REQ_PER_MIN provider calls (the fixed window's boundary slack).
C2_RollingWindow == Len(recent) <= 2 * MAX_REQ_PER_MIN

\* C3: the provider is called at most once per uppercased symbol in a run, and
\* exactly once for every symbol that has a job once the run went to its end.
C3_OneCallPerSymbol ==
  /\ \A s \in UpperSymbols : CallsFor(s) <= 1
  /\ RanToEnd => \A n \in 1..Len(jobs) : CallsFor(Upper(jobs[n].symbol)) = 1


SameKey(p, q) == p.symbol = q.symbol /\ p.trade_date = q.trade_date
KeyUnique(prices) == \A p, q \in prices : SameKey(p, q) => p = q

\* C4: the price store never holds two records for one (symbol, trade_date);
\* an upsert leaves every record that is already stored as it is, and a second
\* upsert of the same record changes nothing.
C4_IdempotentUpsert ==
  /\ KeyUnique(daily_prices)
  /\ [][ /\ KeyUnique(daily_prices')
         /\ KeyUnique(tx_daily_prices')
         /\ \A p \in daily_prices : p \in daily_prices'
         /\ (pc = "insert" /\ pc' = "mark_success") =>
              /\ \A p \in tx_daily_prices : p \in tx_daily_prices'
              /\ \E p \in tx_daily_prices' : SameKey(p, row)
              /\ InsertPrice(tx_daily_prices', row) = tx_daily_prices' ]_vars

\* An upsert met a stored record with the same key and other values.
C4_Witness ==
  /\ pc = "mark_success"
  /\ \E p \in tx_daily_prices : SameKey(p, row) /\ p # row

\* C5: every status transition is committed on its own before the next job is
\* touched: at no moment do two jobs have an uncommitted status update.
C5_PerJobTransaction ==
  Cardinality({ j \in JobIds : tx_job_rows[j] # job_rows[j] }) <= 1

\* The series the job in hand looks its date up in is a fetched one.
SeriesInHand ==
  variant # "single" \/ Upper(jobs[i].symbol) \in DOMAIN series_cache

\* C6: a job whose date is missing from the fetched series is marked FAILED
\* with exactly 'No data for trade_date (market closed?)' and nothing is
\* written for it; and only such a job gets this message.
C6_MissingDate ==
  (pc = "commit_failed" /\ SeriesInHand) =>
    LET m == tx_job_rows[jobs[i].job_id]
    IN  /\ (m.error_message = NO_DATA_MSG) <=> (JobDate(i) \notin DOMAIN series)
        /\ JobDate(i) \notin DOMAIN series =>
             m.status = "FAILED" /\ tx_daily_prices = daily_prices

\* A response the provider call must not turn into a series.
BadResponse(resp) ==
  \/ resp.raised
  \/ resp.status_code # 200
  \/ resp.error
  \/ resp.note
  \/ ~resp.has_series

\* C7: a failing provider call never yields a series, and once a primary run
\* went to its end every job of a symbol whose call failed is FAILED with an
\* 'API error: ' message and no insert was issued for it.
C7_ProviderError ==
  /\ (pc = "fetch" /\ variant \in Primary) =>
       \A resp \in Responses(DatesNeeded(i)) :
         BadResponse(resp) =>
           ~fetch_symbol_data(variant, Upper(jobs[i].symbol), resp).ok
  /\ (RanToEnd /\ variant \in Primary) =>
       \A n \in 1..Len(jobs) :
         (\E c \in 1..Len(fetch_calls) :
            fetch_calls[c].symbol = Upper(jobs[n].symbol) /\ ~fetch_calls[c].ok)
         => /\ job_rows[jobs[n].job_id].status = "FAILED"
            /\ Len(job_rows[jobs[n].job_id].error_message) > 0
            /\ job_rows[jobs[n].job_id].error_message[1] = API_ERROR
            /\ \A u \in 1..Len(upserts) : upserts[u].job_id # jobs[n].job_id

\* The job handled last (i - 1, with the run back at the head of its loop):
\* whether its symbol's series was fetched, and that series.
PrevSeriesKnown ==
  IF variant = "single"
  THEN Upper(jobs[i - 1].symbol) \in DOMAIN series_cache
  ELSE fetch_calls # << >> /\ fetch_calls[Len(fetch_calls)].ok
PrevSeries ==
  IF variant = "single" THEN series_cache[Upper(jobs[i - 1].symbol)] ELSE series

\* The database refused the job's insert or its commit.
DbRefused(j) ==
  /\ job_rows[j].status = "FAILED"
  /\ job_rows[j].error_message \in { << INSERT_ERROR, "database error" >>,
                                     << INSERT_ERROR, "commit failed" >> }

\* 150.12336 is stored as 150.1234 and 0.99996 as 1.0000.
CarriesEntry(r, e) ==
  /\ e.close = Num(15012336) => r.close = 1501234 /\ r.volume = 1000000
  /\ e.close = Num(99996) => r.close = 10000 /\ r.volume = 200

\* C8: a pending job of a primary run whose symbol was fetched and whose date
\* has an entry with valid fields gets, unless the database refuses the insert
\* or the commit, exactly one upsert for (symbol, trade_date) carrying the
\* entry's values, and becomes SUCCESS with no error message.
C8_HappyPath ==
  (/\ pc = "loop"
   /\ i > 1
   /\ variant \in Primary
   /\ PrevSeriesKnown
   /\ JobDate(i - 1) \in DOMAIN PrevSeries
   /\ BuildRow(variant, Upper(jobs[i - 1].symbol), JobDate(i - 1),
               PrevSeries[JobDate(i - 1)]).ok)
  => LET j    == jobs[i - 1].job_id
         e    == PrevSeries[JobDate(i - 1)]
         mine == { n \in 1..Len(upserts) : upserts[n].job_id = j }
     IN  \/ DbRefused(j)
         \/ /\ job_rows[j].status = "SUCCESS"
            /\ job_rows[j].error_message = NULL
            /\ Cardinality(mine) = 1
            /\ \A n \in mine :
                 /\ upserts[n].row.symbol = Upper(jobs[i - 1].symbol)
                 /\ upserts[n].row.trade_date = JobDate(i - 1)
                 /\ CarriesEntry(upserts[n].row, e)
            /\ \E p \in daily_prices :
                 /\ p.symbol = Upper(jobs[i - 1].symbol)
                 /\ p.trade_date = JobDate(i - 1)

\* A job was stored from the entry with close 150.12336 and is SUCCESS.
C8_Witness ==
  /\ pc = "loop"
  /\ i > 1
  /\ variant \in Primary
  /\ job_rows[jobs[i - 1].job_id].status = "SUCCESS"
  /\ \E n \in 1..Len(upserts) :
       /\ upserts[n].job_id = jobs[i - 1].job_id
       /\ upserts[n].row.close = 1501234
       /\ upserts[n].row \in daily_prices

\* C9: a run ends with a non-zero exit status exactly when an interrupt or a
\* fatal error ended it; an interrupted run does not print the completion line.
C9_ExitSignal ==
  pc = "exited" =>
    /\ (exit_code # 0) <=> (interrupted \/ fatal)
    /\ interrupted => ~done_msg

\* C10: the interrupt leaves the committed job rows and price rows as they
\* are, drops what the open transaction holds, and nothing is fetched, written
\* or marked after it.
C10_InterruptFrame ==
  [][ /\ ~interrupted
      /\ interrupted' =>
           /\ job_rows' = job_rows
           /\ daily_prices' = daily_prices
           /\ tx_job_rows' = job_rows
           /\ tx_daily_prices' = daily_prices
           /\ fetch_calls' = fetch_calls
           /\ upserts' = upserts
           /\ pc' = "exited" ]_vars

\* The interrupt came between the insert of the job in hand and its commit,
\* after an earlier job had been committed.
C10_Witness ==
  /\ interrupted
  /\ i > 1
  /\ i <= Len(jobs)
  /\ job_rows[jobs[1].job_id].status = "SUCCESS"
  /\ upserts # << >>
  /\ LET u == upserts[Len(upserts)]
     IN  /\ u.job_id = jobs[i].job_id
         /\ job_rows[u.job_id].status = "PENDING"
         /\ u.row \notin daily_prices

\* The row of the job in hand cannot be built: a field is missing, is no
\* number, or is null where the script converts it.
RowFails ==
  /\ pc = "row"
  /\ ~BuildRow(variant, Upper(jobs[i].symbol), JobDate(i), series[JobDate(i)]).ok

\* The job handled last had an entry for its date whose row could not be built.
PrevRowFailed ==
  /\ pc = "loop"
  /\ i > 1
  /\ PrevSeriesKnown
  /\ JobDate(i - 1) \in DOMAIN PrevSeries
  /\ ~BuildRow(variant, Upper(jobs[i - 1].symbol), JobDate(i - 1),
               PrevSeries[JobDate(i - 1)]).ok

\* C11: a record whose row cannot be built never ends the run (only an
\* interrupt or a lost connection may end it then); the job is committed as
\* FAILED, no row is stored for it, and the run is back at the head of its
\* loop for the next job.
C11_ErrorContainment ==
  [][ /\ (RowFails /\ ~interrupted') => (pc' # "exited" /\ ~fatal')
      /\ PrevRowFailed' =>
           /\ job_rows'[jobs'[i' - 1].job_id].status = "FAILED"
           /\ \A n \in 1..Len(upserts') :
                upserts'[n].job_id # jobs'[i' - 1].job_id ]_vars

\* The log lines and the records of one symbol.
LogLines(sym) == { n \in 1..Len(log) : log[n].sym = sym }
RecordsOf(sym) == { n \in 1..Len(records) : records[n].symbol = sym }
BatchSymbols(b) == { symbols[n] : n \in b..BatchEnd(b) }

\* The retry loop of the batch in hand ran out of attempts.
Exhausted == fpc = "retry" /\ attempt > MAX_RETRIES

\* C12: when every attempt to download a batch has failed, each symbol of the
\* batch has exactly one log line, FAILED with a 'batch-error: ' message, and
\* no record; the run then goes on, so that at its end every symbol of the
\* ticker list has exactly one log line.
C12_BatchRetryExhaustion ==
  /\ Exhausted =>
       /\ Len(downloads) = MAX_RETRIES
       /\ \A sym \in BatchSymbols(batch_start) :
            /\ Cardinality(LogLines(sym)) = 1
            /\ \A n \in LogLines(sym) :
                 /\ log[n].status = "FAILED"
                 /\ log[n].msg # NULL
                 /\ log[n].msg[1] = BATCH_ERROR
            /\ RecordsOf(sym) = {}
  /\ fpc = "done" =>
       \A n \in 1..Len(symbols) : Cardinality(LogLines(symbols[n])) = 1

\* A run ended whose first batch ran out of attempts and whose second batch
\* gave a record.
C12_Witness ==
  /\ fpc = "done"
  /\ Len(symbols) > BATCH_SIZE
  /\ \A n \in LogLines(symbols[1]) : log[n].msg # NULL /\ log[n].msg[1] = BATCH_ERROR
  /\ RecordsOf(symbols[Len(symbols)]) # {}

\* A write to a job row: a status of SUCCESS or FAILED on a job that the run
\* loaded and that its query's filter holds for, symbol and date left alone.
JobWrite(old, new, j) ==
  /\ new.status \in {"SUCCESS", "FAILED"}
  /\ new.symbol = old.symbol
  /\ new.trade_date = old.trade_date
  /\ j \in LoadedIds
  /\ j \in Selected(variant, trade_date, job_rows)

\* C13: whatever table earlier runs have left, a run of any of the three
\* scripts changes a committed job row only into SUCCESS or FAILED and only
\* for a job its query selected; it never sets PENDING, never removes a row,
\* and never changes a row whose committed status is SUCCESS.
C13_JobStateMachine ==
  [][ /\ DOMAIN job_rows' = DOMAIN job_rows
      /\ \A j \in JobIds :
           /\ job_rows'[j] # job_rows[j] =>
                /\ JobWrite(job_rows[j], job_rows'[j], j)
                /\ job_rows[j].status # "SUCCESS"
           /\ tx_job_rows'[j] # tx_job_rows[j] =>
                \/ tx_job_rows'[j] = job_rows[j]
                \/ JobWrite(tx_job_rows[j], tx_job_rows'[j], j)
           /\ job_rows'[j].status = "PENDING" => job_rows[j].status = "PENDING" ]_vars

\* A recovery run has turned a FAILED job into SUCCESS in a table that holds
\* the SUCCESS row of an earlier run, which it did not load.
C13_Witness ==
  /\ variant = "fallback"
  /\ \E j \in LoadedIds : job_rows[j].status = "SUCCESS"
  /\ \E j \in JobIds \ LoadedIds : job_rows[j].status = "SUCCESS"

\* The inserts the run has executed for one job.
UpsertsOf(j) == { n \in 1..Len(upserts) : upserts[n].job_id = j }

\* The step commits and the run moves on behind the jobs it has handled.
CommitsAndMovesOn ==
  /\ pc \in {"commit", "commit_failed", "fail_commit"}
  /\ pc' = "loop"
  /\ job_rows' = tx_job_rows
  /\ daily_prices' = tx_daily_prices

\* C14: the run passes every loaded job exactly once, in one commit that
\* carries the job's SUCCESS or FAILED mark; nothing is committed in any other
\* step; at most one insert is executed for a job, and a price row is
\* committed only together with the SUCCESS mark of its job, so a job whose
\* insert or commit failed ends with the FAILED mark alone.
C14_ExactlyOnce ==
  [][ /\ pc' \notin {"idle", "exited"} => i' >= i
      /\ (i' # i /\ pc' # "exited") =>
           /\ CommitsAndMovesOn
           /\ \A n \in i..(i' - 1) :
                /\ job_rows'[jobs[n].job_id].status \in {"SUCCESS", "FAILED"}
                /\ tx_job_rows[jobs[n].job_id] # job_rows[jobs[n].job_id]
                     \/ variant = "fallback"
           /\ \A j \in JobIds \ { jobs[n].job_id : n \in i..(i' - 1) } :
                job_rows'[j] = job_rows[j]
      /\ (job_rows' # job_rows \/ daily_prices' # daily_prices) => i' # i
      /\ daily_prices' # daily_prices =>
           /\ i' = i + 1
           /\ job_rows'[jobs[i].job_id].status = "SUCCESS"
           /\ daily_prices' = daily_prices \cup {row}
      /\ \A j \in JobIds : Cardinality(UpsertsOf(j)') <= 1 ]_vars

\* The commit of a job's insert and SUCCESS mark was refused; the job was then
\* committed as FAILED and its row is not in the price table.
C14_Witness ==
  /\ pc = "loop"
  /\ i > 1
  /\ job_rows[jobs[i - 1].job_id].status = "FAILED"
  /\ job_rows[jobs[i - 1].job_id].error_message = << INSERT_ERROR, "commit failed" >>
  /\ \E n \in UpsertsOf(jobs[i - 1].job_id) : upserts[n].row \notin daily_prices

\* The symbols of the batch in hand that the per-symbol loop has been through.
ProcessedIdx ==
  CASE fpc = "symbols" -> batch_start..(sym_idx - 1)
    [] fpc = "pause"   -> batch_start..BatchEnd(batch_start)
    [] OTHER           -> {}

\* The downloaded frame has a row for the symbol on the trade date, and a
\* price or the volume is missing from it.
LacksPriceOrVolume(sym) ==
  /\ sym \in DOMAIN data
  /\ TRADE_DATE \in DOMAIN data[sym]
  /\ \/ IsNa(data[sym][TRADE_DATE].open)
     \/ IsNa(data[sym][TRADE_DATE].close)
     \/ IsNa(data[sym][TRADE_DATE].volume)

\* C15: a symbol whose row lacks a price or the volume is logged FAILED with
\* 'missing price or volume', never SUCCESS, and gets no record.
C15_MissingPriceFields ==
  \A n \in ProcessedIdx :
    LacksPriceOrVolume(symbols[n]) =>
      /\ RecordsOf(symbols[n]) = {}
      /\ \A m \in LogLines(symbols[n]) :
           log[m].status = "FAILED" /\ log[m].msg = MISSING_MSG

\* The run is in the except branch of the insert try: the exception in hand
\* became an 'Insert error: ' message.
InInsertExcept ==
  /\ pc \in {"rollback", "mark_failed", "commit_failed"}
  /\ err # NULL
  /\ err[1] = INSERT_ERROR

\* C16: when the insert or its commit is refused (the connection is alive),
\* the job's transaction is rolled back, so that no price row is stored and
\* no other job's row changes; the job is then marked FAILED with an
\* 'Insert error: ' message, that mark is committed on its own, and the run
\* is back at the head of its loop for the next job.
C16_PersistenceFailure ==
  [][ /\ (pc \in {"insert", "commit"} /\ ~interrupted' /\ ~fatal') =>
           pc' \in {"mark_success", "loop", "rollback"}
      /\ (InInsertExcept /\ ~interrupted' /\ ~fatal') =>
           /\ daily_prices' = daily_prices
           /\ tx_daily_prices' = daily_prices
           /\ \A j \in JobIds \ {jobs[i].job_id} :
                job_rows'[j] = job_rows[j] /\ tx_job_rows'[j] = job_rows[j]
           /\ pc = "rollback" =>
                job_rows' = job_rows /\ tx_job_rows' = job_rows
           /\ pc = "commit_failed" =>
                /\ pc' = "loop"
                /\ i' = i + 1
                /\ job_rows'[jobs[i].job_id].status = "FAILED"
                /\ job_rows'[jobs[i].job_id].error_message = err
                /\ tx_job_rows' = job_rows' ]_vars

\* The database refused the insert of a job after an earlier job of the run
\* had been stored; the job is FAILED and the earlier row is still there.
C16_Witness ==
  /\ pc = "loop"
  /\ i > 2
  /\ job_rows[jobs[i - 1].job_id].status = "FAILED"
  /\ job_rows[jobs[i - 1].job_id].error_message = << INSERT_ERROR, "database error" >>
  /\ job_rows[jobs[1].job_id].status = "SUCCESS"
  /\ \E n \in UpsertsOf(jobs[1].job_id) : upserts[n].row \in daily_prices

\* C17: the request counter never exceeds MAX_REQ_PER_MIN, and no provider
\* call is made with requests still counted in a window that has run out (60
\* seconds or more since the window start): the window has been restarted.
C17_WindowReset ==
  /\ req_counter <= MAX_REQ_PER_MIN
  /\ (pc = "fetch" /\ variant \in Primary /\ req_counter > 0) => elapsed < 60

\* The provider calls made since the window start (a call made before it is
\* older than the window).
CallsInWindow == { n \in 1..Len(recent) : recent[n] <= elapsed }

\* C18: a provider call of a primary run comes straight after the limiter's
\* check, and while the window runs the request counter equals the number of
\* calls made since the window start, failed calls included.
C18_CallsCounted ==
  [][ /\ (pc' = "fetch" /\ pc # "fetch") => pc \in {"rate", "sleep"}
      /\ (variant' \in Primary /\ elapsed' < 60) =>
           Cardinality(CallsInWindow') = req_counter' ]_vars

\* The failed downloads of the batch in hand.
FailedDownloads == { n \in 1..Len(downloads) : ~downloads[n] }

\* The retry loop of the batch in hand is over.
RetryOver == fpc \in {"symbols", "pause"} \/ Exhausted

\* C19: a batch is downloaded at least once and at most MAX_RETRIES times;
\* nothing is downloaded after a successful attempt; the flow has slept
\* k x 2 seconds after failed attempt k, except after attempt MAX_RETRIES;
\* and every pass through the retry loop raises the attempt number, which
\* never exceeds MAX_RETRIES + 1, so the loop ends.
C19_BoundedRetry ==
  [][ /\ Len(downloads') <= MAX_RETRIES
      /\ \A n \in 1..Len(downloads') : downloads'[n] => n = Len(downloads')
      /\ RetryOver' => Len(downloads') >= 1
      /\ fpc' \in {"symbols", "pause"} => downloads'[Len(downloads')]
      /\ Len(sleeps') = Min(Cardinality(FailedDownloads'), MAX_RETRIES - 1)
      /\ \A n \in 1..Len(sleeps') : sleeps'[n] = n * BACKOFF_BASE
      /\ attempt' <= MAX_RETRIES + 1
      /\ (fpc = "retry" /\ fpc' = "retry") => attempt' = attempt + 1 ]_vars

\* A download succeeded on the last attempt, after two failures and two
\* pauses of 2 and 4 seconds.
C19_Witness ==
  /\ fpc = "symbols"
  /\ downloads = << FALSE, FALSE, TRUE >>
  /\ sleeps = << 2, 4 >>

\* C20: a lost connection (or any error that no handler of the loop takes)
\* ends the run at once with a non-zero exit status and without the closing
\* line; the step that meets it commits nothing, drops the open transaction,
\* fetches and inserts nothing, and no step follows it.
C20_JobStoreFailureFatal ==
  [][ /\ ~fatal
      /\ fatal' =>
           /\ pc' = "exited"
           /\ exit_code' # 0
           /\ ~done_msg'
           /\ job_rows' = job_rows
           /\ daily_prices' = daily_prices
           /\ tx_job_rows' = job_rows
           /\ tx_daily_prices' = daily_prices
           /\ fetch_calls' = fetch_calls
           /\ upserts' = upserts
           /\ i' = i ]_vars

\* The connection was lost while the several-days or the recovery script was
\* at the database for its second job: the job keeps the status it was loaded
\* with and the first job's commit stands.
C20_Witness ==
  /\ fatal
  /\ variant \in {"multi", "fallback"}
  /\ i = 2
  /\ i <= Len(jobs)
  /\ job_rows[jobs[2].job_id].status = (IF variant = "multi" THEN "PENDING" ELSE "FAILED")
  /\ job_rows[jobs[1].job_id].status = "SUCCESS"
  /\ exit_code = 1

\* Job a may be processed before job b: its symbol is the lower one, or the
\* symbols are the same and its date is not the later one.
Ascending(a, b) ==
  \/ SymRank(a.symbol) < SymRank(b.symbol)
  \/ a.symbol = b.symbol /\ a.trade_date <= b.trade_date

\* The jobs whose committed row a step has changed.
RowsChanged == { j \in JobIds : job_rows'[j] # job_rows[j] }

\* C21: the loaded batch is in ascending order of symbol and, within a symbol,
\* of trade date; the run walks it forwards only: a commit changes the rows of
\* the jobs the run moves past and of no other job, and a provider call is
\* for the symbol of the job in hand.
C21_ProcessingOrder ==
  [][ /\ \A a, b \in 1..Len(jobs') : a < b => Ascending(jobs'[a], jobs'[b])
      /\ pc' \notin {"idle", "exited"} => i' >= i
      /\ RowsChanged \subseteq { jobs[n].job_id : n \in i..(i' - 1) }
      /\ fetch_calls' # fetch_calls =>
           /\ i' = i
           /\ Len(fetch_calls') = Len(fetch_calls) + 1
           /\ fetch_calls'[Len(fetch_calls')].symbol = Upper(jobs[i].symbol)
           /\ \A n \in 1..Len(fetch_calls) : fetch_calls'[n] = fetch_calls[n] ]_vars

\* A recovery run went through two dates of one symbol and then a job of a
\* second symbol, with one download for each symbol.
C21_Witness ==
  /\ RanToEnd
  /\ variant = "fallback"
  /\ Len(jobs) = 3
  /\ jobs[1].symbol = jobs[2].symbol
  /\ jobs[1].trade_date < jobs[2].trade_date
  /\ jobs[3].symbol # jobs[1].symbol
  /\ Len(fetch_calls) = 2
  /\ \A n \in 1..3 : job_rows[jobs[n].job_id].status = "SUCCESS"

\* The adjustment value the record is to carry for a raw field: the default
\* when the field is absent or null, the field's own value when it is there.
AdjustmentOf(f, default) ==
  IF f.kind \in {"absent", "null"} THEN default ELSE Round4(f.val)

\* The symbol's row for the trade date has every price and the volume.
HasPricesAndVolume(sym) ==
  /\ sym \in DOMAIN data
  /\ TRADE_DATE \in DOMAIN data[sym]
  /\ ~LacksPriceOrVolume(sym)

\* C22: a symbol whose row has its prices and volume is logged SUCCESS with
\* one record, which carries dividend_amount 0.0 and split coefficient 1.0
\* where the row's field is absent or null, and the row's own value (a zero
\* included) where the field is there.
C22_AdjustmentDefaults ==
  \A n \in ProcessedIdx :
    HasPricesAndVolume(symbols[n]) =>
      LET r == data[symbols[n]][TRADE_DATE]
      IN  /\ \A m \in LogLines(symbols[n]) : log[m].status = "SUCCESS"
          /\ Cardinality(RecordsOf(symbols[n])) = 1
          /\ \A m \in RecordsOf(symbols[n]) :
               /\ records[m].dividend_amount = AdjustmentOf(r.dividends, 0)
               /\ records[m].split_coeff = AdjustmentOf(r.splits, 10000)

\* The price table has a row for the job's upper-case symbol and date.
HasPrice(prices, j, table) ==
  \E p \in prices : /\ p.symbol = Upper(table[j].symbol)
                    /\ p.trade_date = table[j].trade_date

\* C23: in every committed state, also the one an interrupt or a lost
\* connection leaves, a job whose committed status is SUCCESS has a committed
\* price row for its upper-case symbol and trade date.
C23_SuccessHasPrice ==
  \A j \in JobIds :
    job_rows[j].status = "SUCCESS" => HasPrice(daily_prices, j, job_rows)

\* The connection was lost between a job's insert and its commit, after an
\* earlier job of the run had been committed as SUCCESS.
C23_Witness ==
  /\ fatal
  /\ i > 1
  /\ i <= Len(jobs)
  /\ job_rows[jobs[i - 1].job_id].status = "SUCCESS"
  /\ UpsertsOf(jobs[i].job_id) # {}
  /\ job_rows[jobs[i].job_id].status # "SUCCESS"
  /\ ~HasPrice(daily_prices, jobs[i].job_id, job_rows)

\* The jobs a recovery run would load from a job table.
Eligible(table) == Selected("fallback", trade_date, table)

\* The marks a recovery run gives that take a job out of the recovery filter.
MarkedOut(r) ==
  \/ r.status = "SUCCESS"
  \/ /\ r.status = "FAILED"
     /\ r.error_message # NULL
     /\ \/ r.error_message[1] \in {YF_ERROR, INSERT_ERROR}
        \/ r.error_message = YF_EMPTY_MSG

\* C24: no step of a recovery run makes a job eligible for the recovery query
\* that was not eligible before; when the run has gone through its batch, the
\* eligible jobs are exactly the loaded jobs it left FAILED with 'No data for
\* trade_date (market closed?)', and every other loaded job carries a mark
\* that the query does not select.
C24_RecoveryEligibility ==
  [][ variant' = "fallback" =>
        /\ Eligible(job_rows') \subseteq Eligible(job_rows)
        /\ RanToEnd' =>
             /\ Eligible(job_rows') =
                  { j \in LoadedIds' : /\ job_rows'[j].status = "FAILED"
                                       /\ job_rows'[j].error_message = NO_DATA_MSG }
             /\ \A j \in LoadedIds' :
                  \/ job_rows'[j].error_message = NO_DATA_MSG
                  \/ MarkedOut(job_rows'[j]) /\ j \notin Eligible(job_rows') ]_vars

\* A recovery run ended with one job stored, one job without data again and
\* one job whose download failed.
C24_Witness ==
  /\ RanToEnd
  /\ variant = "fallback"
  /\ \E a, b, c \in LoadedIds :
       /\ job_rows[a].status = "SUCCESS"
       /\ job_rows[b].error_message = NO_DATA_MSG
       /\ job_rows[c].error_message # NULL
       /\ job_rows[c].error_message[1] = YF_ERROR

====
